---- MODULE Spec2Model ----
(***************************************************************************)
(* A model of the prediction orchestrator of AiScoPre                      *)
(* (src/services/prediction_service.py) together with the three            *)
(* collaborators it calls through gRPC stubs: the match service, the       *)
(* feature service and the model service.                                  *)
(*                                                                         *)
(* The prediction service runs its handlers on a thread pool; every        *)
(* handler is modelled as a small program whose steps are the statements   *)
(* of the handler that touch shared state or block: the cache lookup, the  *)
(* clock read, each outbound call, the cache write, the yield and the      *)
(* sleep of the streaming generator.  Time is an integer clock.            *)
(* Probabilities are fixed-point numbers with Scale units to 1.0.          *)
(***************************************************************************)
EXTENDS Integers, Sequences, FiniteSets, TLC

\* ---------------------------------------------------------------- bounds


\* Steps of the clock; each step is one streaming interval long.
MaxTicks == 2

\* Requests (GetPrediction calls and stream ticks) the model starts.
MaxReq == 2

\* Steps of the clock when one client calls GetPrediction again and again.
MaxSeqTicks == 4

\* The longest feature vector a client sends to the model service.
MaxFeatures == 5

\* Register calls the clients of the user service make.
MaxRegs == 3

\* Times another process rewrites or removes the gateway's data file.
MaxWrites == 2

\* Calls of the gateway's dataset loader after the one at startup.
MaxLoads == 2

\* ------------------------------------------------------ program constants

\* prediction_service.py:98  "if time.time() - ts < 10.0"
FreshnessWindow == 10

\* prediction_service.py:121  "time.sleep(5.0)"
StreamInterval == 5

\* model_service.py:33  "if len(features) < 4"
MinFeatures == 4

\* Fixed-point unit: Scale stands for the 1.0 of model_service.py:55.
Scale == 1000

\* model_service.py:18  math.exp raises OverflowError for an argument above
\* 709.782 (the logarithm of the largest double), here in Scale units.
ExpLimit == 709782

\* The worker threads the model runs, of the pool's ten
\* (prediction_service.py:139).
Workers == {1, 2}

\* The demo match and an id the match service does not know.
MatchIds == {"1", "X"}

None == [none |-> TRUE]

\* ------------------------------------------------------------ collaborators

\* common_pb2.Match as the match service stores it.
Match(home, away, stage) == [home |-> home, away |-> away, stage |-> stage]

\* match_service.py:66-73: the demo match serve() adds.
DemoMatch == Match("ARG", "FRA", "Final")

\* What a later add_match stores: the demo match, moved to the group stage.
Addable ==
    { <<"1", Match("ARG", "FRA", "Group")>> }

\* team_service.py:55-70: the teams serve() adds, by id: their elo_rating.
TeamElo(team) ==
    CASE team = "ARG" -> 2100
      [] team = "FRA" -> 2050
      [] OTHER -> 0

Abs(x) == IF x < 0 THEN -x ELSE x

Max(a, b) == IF a >= b THEN a ELSE b

\* e^x for x >= 0 in fixed point: the Taylor series, summed term by term.
RECURSIVE ExpSeries(_, _, _)
ExpSeries(x, term, k) ==
    IF term = 0 \/ k > 40 THEN 0
    ELSE term + ExpSeries(x, (term * x) \div (k * Scale), k + 1)

Exp(x) == ExpSeries(x, Scale, 1)

\* model_service.py:14-18  _sigmoid: 1 / (1 + exp(-x)).  Beyond 7 the value
\* is within one fixed-point unit of 1, beyond -7 of 0.
Sigmoid(x) ==
    IF x > 7 * Scale THEN Scale
    ELSE IF x < -7 * Scale THEN 0
    ELSE IF x >= 0 THEN (Scale * Exp(x)) \div (Scale + Exp(x))
    ELSE (Scale * Scale) \div (Scale + Exp(-x))

\* model_service.py:18: math.exp(-x) overflows, and _sigmoid raises.
SigmoidOverflows(x) == -x > ExpLimit

\* str.lower() on the stage names the model uses.
Lower(s) ==
    CASE s = "Final" -> "final"
      [] s = "Group" -> "group"
      [] s = "Groups" -> "groups"
      [] OTHER -> s

\* feature_service.py:27-43  BuildMatchFeatures, given the match it fetched.
BuildFeatures(match) ==
    LET eh == TeamElo(match.home)
        ea == TeamElo(match.away)
        elo_home == IF eh = 0 THEN 1500 ELSE eh
        elo_away == IF ea = 0 THEN 1500 ELSE ea
        elo_diff == elo_home - elo_away
        is_knockout == IF Lower(match.stage) \notin {"group", "groups"} THEN 1 ELSE 0
    IN  <<elo_home, elo_away, elo_diff, is_knockout>>

\* model_service.py:27-68  PredictMatchOutcome: the error code, or the triple.
\* The OverflowError of _sigmoid leaves the handler as an exception, which the
\* server reports as UNKNOWN.
PredictMatchOutcome(features) ==
    IF Len(features) < MinFeatures
    THEN [code |-> "INVALID_ARGUMENT"]
    ELSE
      LET elo_diff == features[3]
          is_knockout == features[4]
          sign == IF elo_diff < 0 THEN -1 ELSE 1
          base0 == sign * ((Abs(elo_diff) * Scale) \div 300)
          base == IF 2 * is_knockout > 1
                  THEN sign * ((Abs(base0) * 12) \div 10)
                  ELSE base0
          home0 == Sigmoid(base)
          draw0 == Max(150, 350 - Abs(elo_diff))
          away0 == Max(0, Scale - home0 - draw0)
          total == home0 + draw0 + away0
      IN  IF SigmoidOverflows(base)
          THEN [code |-> "UNKNOWN"]
          ELSE IF total <= 0
          THEN [code |-> "OK",
                probs |-> <<Scale \div 3, Scale \div 3, Scale \div 3>>]
          ELSE [code |-> "OK",
                probs |-> <<(home0 * Scale) \div total,
                            (draw0 * Scale) \div total,
                            (away0 * Scale) \div total>>]

\* -------------------------------------------------------------------- state

VARIABLES
    now,      \* the clock time.time() reads
    matches,  \* MatchRepository._matches: match id -> Match, or None
    cache,    \* SimplePredictionCache._data: match id -> entry, or None
    writer,   \* history: per match id, the request whose write the entry is
    ws,       \* the worker threads: each one's handler, position and locals
    nreq,     \* requests and stream ticks started so far
    model_rpc, \* a call a client makes of the model service itself, or None
    scraper,   \* one run of scripts/scrape_wc2026.py
    users,     \* the user service: its repository and the threads in Register
    gateway    \* the gateway's dataset cache, its data file, its loader's call

vars == <<now, matches, cache, writer, ws, nreq, model_rpc, scraper, users, gateway>>

\* The state of the prediction service and of what it calls.
pred == <<now, matches, cache, writer, ws, nreq>>

\* The state the prediction service's handlers never touch.
aside == <<model_rpc, scraper, users, gateway>>

\* prediction_service.py:47: the tuple (timestamp, home, draw, away).
Entry(ts, probs) == [ts |-> ts, probs |-> probs]

NoRes == [status |-> "NONE"]

\* A worker thread of the pool that runs no handler.  op, pc and mid say
\* which handler runs, where it is and for which match id; cached, match,
\* features, model_resp and now_ts are the handlers' local variables; wake is
\* the end of the generator's sleep and cancelled the subscriber's
\* cancellation.  The other fields are history: rid numbers the request or
\* tick; src is the request that wrote the entry the lookup read, age the
\* age the freshness test computed (-1: no entry) and path the branch it
\* took; log lists the outbound calls and cache writes of the request or
\* tick in order, each with the status code it ended with; now_ts is the
\* timestamp the computation read, -1 before it has, wrote the entry
\* written; late says that the tick began after the cancellation,
\* fresh0 that it began with a fresh entry in the cache; emitted counts the
\* responses sent, end says why the generator ended and res is the outcome.
IdleWorker ==
    [op |-> "idle", pc |-> "idle", mid |-> "", rid |-> 0, cached |-> None,
     src |-> 0, age |-> -1, path |-> "", match |-> None, features |-> <<>>,
     model_resp |-> None, now_ts |-> -1,
     wrote |-> None, log |-> <<>>, res |-> NoRes, wake |-> -1,
     cancelled |-> FALSE, late |-> FALSE, emitted |-> 0, end |-> "",
     fresh0 |-> FALSE]

\* The locals of a frame that has returned are gone.
Locals(r) ==
    [r EXCEPT !.cached = None, !.src = 0, !.match = None, !.features = <<>>,
              !.model_resp = None, !.now_ts = -1,
              !.wrote = None, !.fresh0 = FALSE]

\* The sites a run of the scraper is pointed at.
Domains == {"a.example", "b.example"}

\* The scraper before a run.  html_file says that --html-file was given, url
\* is the domain of --source-url ("" when it was not given), allow the
\* --allow-domain list, dry_run that --dry-run was given; sent lists the HTTP
\* requests of the run in order; error is the exception that ended it;
\* written says that the output file was written.
IdleScraper ==
    [pc |-> "idle", html_file |-> FALSE, url |-> "", allow |-> {},
     dry_run |-> FALSE, sent |-> <<>>, robots |-> "", error |-> "",
     written |-> FALSE]

\* The names and passwords clients register with, and the threads of the user
\* service's pool that serve them.
Usernames == {"ann", "bob"}

Passwords == {"pa", "pb"}

UserThreads == {1, 2}

\* A thread of the user service that runs no handler.  user_id is the number
\* n of the id "user-n", 0 before line 26 has computed it; code is the status
\* of the finished call and ret the id it returned; known says that the
\* username was registered when the call arrived.
IdleRegister ==
    [pc |-> "idle", username |-> "", password |-> "", user_id |-> 0,
     code |-> "", ret |-> 0, known |-> FALSE]

\* user_service.py:19-21, 69: the empty repository of a started service.
\* by_name is _users_by_name (0: no such key) and passwords is _passwords
\* ("": no such key).
EmptyUsers ==
    [by_name |-> [u \in Usernames |-> 0],
     passwords |-> [i \in 1 .. Cardinality(Usernames) + 1 |-> ""],
     th |-> [t \in UserThreads |-> IdleRegister],
     nregs |-> 0]

\* The dataset the k-th version of the data file holds.
Data(k) == [version |-> k]

\* The modification time the k-th write leaves on the data file.
Mtime(k) == [st_mtime |-> k]

\* gateway.py:57: the dataset served when there is no data file.
EmptyData == [tournament |-> <<>>, odds |-> <<>>]

\* The error a call of the loader ends with when the file it opens or stats
\* is gone.
FileNotFound == [error |-> "FileNotFoundError"]

\* gateway.py:28-30: the gateway before startup, with the data file as its
\* first version.  file is None when the file does not exist; content and
\* mtime are the number of the write that left them.  cache and mtime are
\* _wc2026_cache and _wc2026_mtime; pc, force and ret belong to the call of
\* _load_wc2026_data in progress or finished, startup says that it is the
\* call of on_startup; changed says that the file was written or removed
\* since that call began.
ColdGateway ==
    [file |-> [content |-> 0, mtime |-> Mtime(0)],
     cache |-> None, mtime |-> None,
     pc |-> "cold", force |-> FALSE, startup |-> FALSE, ret |-> None,
     changed |-> FALSE, nwrites |-> 0, nloads |-> 0]

\* IsFresh with the window's end counted as fresh.
IsFreshInclusive(entry, t) == t - entry.ts <= FreshnessWindow

\* prediction_service.py:98: the freshness test of GetPrediction.
IsFresh(entry, t) == t - entry.ts < FreshnessWindow

\* prediction_service.py:95-98: the entry GetPrediction serves.
Served(cached, t) == cached # None /\ IsFresh(cached, t)

\* match_service.py:41-47  GetMatch as the stub's caller sees it.
GetMatch(m) ==
    IF matches[m] = None
    THEN [code |-> "NOT_FOUND"]
    ELSE [code |-> "OK", match |-> matches[m]]

\* feature_service.py:27-43  BuildMatchFeatures as the stub's caller sees it:
\* the handler's own GetMatch raises for an unknown id, which its server
\* reports as UNKNOWN.
BuildMatchFeatures(m) ==
    IF matches[m] = None
    THEN [code |-> "UNKNOWN"]
    ELSE [code |-> "OK", features |-> BuildFeatures(matches[m])]

\* A stub call ends with the collaborator's answer or with a transport
\* failure.
Outcomes(answer) == {answer, [code |-> "UNAVAILABLE"]}

\* What a worker does with a grpc.RpcError raised by a stub call: GetPrediction
\* lets it propagate (prediction_service.py:91-110, no handler), the
\* generator of StreamPrediction catches it (prediction_service.py:122-123)
\* and returns.
Raised(r, code, at) ==
    IF r.op = "stream"
    THEN [Locals(r) EXCEPT !.pc = "ended", !.end = "rpc_error", !.wake = -1,
                   !.res = [status |-> "FAILED", code |-> code, at |-> at]]
    ELSE [Locals(r) EXCEPT !.pc = "done",
                   !.res = [status |-> "FAILED", code |-> code, at |-> at]]

\* The worker's record after one more outbound call or cache write.
Logged(r, call, o) ==
    [r EXCEPT !.log = Append(@, [call |-> call, code |-> o.code,
                                 ret |-> IF call = "match" /\ o.code = "OK"
                                         THEN o.match ELSE None])]

\* The pool's threads are alike: a thread takes its first request only when
\* the threads before it have taken theirs.
Free(w) ==
    /\ ws[w].pc \in {"idle", "done", "ended"}
    /\ \A v \in Workers : v < w => ws[v].pc # "idle"

Init ==
    /\ now = 0
    /\ matches = [m \in MatchIds |-> IF m = "1" THEN DemoMatch ELSE None]
    /\ cache = [m \in MatchIds |-> None]
    /\ writer = [m \in MatchIds |-> 0]
    /\ ws = [w \in Workers |-> IdleWorker]
    /\ nreq = 0
    /\ model_rpc = None
    /\ gateway = ColdGateway
    /\ users = EmptyUsers
    /\ scraper = IdleScraper

\* ---------------------------------------------------------------- actions

\* The clock advances; it is observed once per streaming interval.
Tick ==
    /\ now < MaxTicks * StreamInterval
    /\ now' = now + StreamInterval
    /\ UNCHANGED <<matches, cache, writer, ws, nreq, aside>>

\* match_service.py:22-23  MatchRepository.add_match.
AddMatch ==
    /\ \E a \in Addable :
          /\ matches[a[1]] # a[2]
          /\ matches' = [matches EXCEPT ![a[1]] = a[2]]
    /\ UNCHANGED <<now, cache, writer, ws, nreq, aside>>

\* A free worker thread takes a GetPrediction request.
StartGet(w) ==
    /\ Free(w)
    /\ nreq < MaxReq
    /\ \E m \in MatchIds :
          ws' = [ws EXCEPT ![w] =
                    [IdleWorker EXCEPT !.op = "get", !.pc = "g_get", !.mid = m,
                                       !.rid = nreq + 1]]
    /\ nreq' = nreq + 1
    /\ UNCHANGED <<now, matches, cache, writer, aside>>

\* CacheGet that stamps the entry it finds with the time of the lookup.
CacheGetRefreshing(w) ==
    /\ ws[w].pc = "g_get"
    /\ ws' = [ws EXCEPT ![w] =
                 [ws[w] EXCEPT !.cached = cache[ws[w].mid],
                               !.src = writer[ws[w].mid], !.pc = "g_fresh"]]
    /\ cache' = [cache EXCEPT ![ws[w].mid] =
                    IF @ = None THEN @ ELSE Entry(now, @.probs)]
    /\ UNCHANGED <<now, matches, writer, nreq, aside>>

\* prediction_service.py:94  cached = self._cache.get(request.match_id)
CacheGet(w) ==
    /\ ws[w].pc = "g_get"
    /\ ws' = [ws EXCEPT ![w] =
                 [ws[w] EXCEPT !.cached = cache[ws[w].mid],
                               !.src = writer[ws[w].mid], !.pc = "g_fresh"]]
    /\ UNCHANGED <<now, matches, cache, writer, nreq, aside>>

\* prediction_service.py:95-98, 110: the entry is served when it exists and
\* is fresh at this clock read; otherwise the prediction is computed.
FreshCheck(w) ==
    /\ ws[w].pc = "g_fresh"
    /\ ws' = [ws EXCEPT ![w] =
                 [ws[w] EXCEPT !.age = IF ws[w].cached = None THEN -1
                                        ELSE now - ws[w].cached.ts,
                               !.path = IF Served(ws[w].cached, now)
                                        THEN "hit" ELSE "miss",
                               !.pc = IF Served(ws[w].cached, now)
                                      THEN "g_hit" ELSE "c_match"]]
    /\ UNCHANGED <<now, matches, cache, writer, nreq, aside>>

\* HitResponse with the home and away probabilities exchanged.
HitResponseSwapped(r, match) ==
    [status |-> "OK", match |-> match,
     probs |-> <<r.cached.probs[3], r.cached.probs[2], r.cached.probs[1]>>,
     src |-> r.src, stored |-> None]

\* The response prediction_service.py:102-108 builds on the hit path.
HitResponse(r, match) ==
    [status |-> "OK", match |-> match, probs |-> r.cached.probs,
     src |-> r.src, stored |-> None]

\* HitGetMatch without the call of the match service.
HitWithoutFetch(w) ==
    /\ ws[w].pc = "g_hit"
    /\ ws' = [ws EXCEPT ![w] =
                 [Locals(ws[w]) EXCEPT
                     !.pc = "done",
                     !.res = [status |-> "OK", match |-> None,
                              probs |-> ws[w].cached.probs, src |-> ws[w].src,
                              stored |-> None]]]
    /\ UNCHANGED <<now, matches, cache, writer, nreq, aside>>

\* prediction_service.py:99-108: the hit path fetches the match and answers
\* with the cached probabilities.
HitGetMatch(w) ==
    /\ ws[w].pc = "g_hit"
    /\ \E o \in Outcomes(GetMatch(ws[w].mid)) :
          LET r == Logged(ws[w], "match", o) IN
          ws' = [ws EXCEPT ![w] =
                    IF o.code = "OK"
                    THEN [Locals(r) EXCEPT !.pc = "done",
                                           !.res = HitResponse(r, o.match)]
                    ELSE Raised(r, o.code, "match")]
    /\ UNCHANGED <<now, matches, cache, writer, nreq, aside>>

\* CallMatch that does not look at the status: an error leaves an empty match
\* and the computation goes on.
CallMatchUnchecked(w) ==
    /\ ws[w].pc = "c_match"
    /\ \E o \in Outcomes(GetMatch(ws[w].mid)) :
          LET r == Logged(ws[w], "match", o) IN
          ws' = [ws EXCEPT ![w] =
                    [r EXCEPT !.pc = "c_feature",
                              !.match = IF o.code = "OK" THEN o.match
                                        ELSE Match("", "", "")]]
    /\ UNCHANGED <<now, matches, cache, writer, nreq, aside>>

\* prediction_service.py:64-65  match_resp = self._match_stub.GetMatch(...)
CallMatch(w) ==
    /\ ws[w].pc = "c_match"
    /\ \E o \in Outcomes(GetMatch(ws[w].mid)) :
          LET r == Logged(ws[w], "match", o) IN
          ws' = [ws EXCEPT ![w] =
                    IF o.code = "OK"
                    THEN [r EXCEPT !.pc = "c_feature", !.match = o.match]
                    ELSE Raised(r, o.code, "match")]
    /\ UNCHANGED <<now, matches, cache, writer, nreq, aside>>

\* CallFeature that does not look at the status: an error leaves an empty
\* feature vector and the computation goes on.
CallFeatureUnchecked(w) ==
    /\ ws[w].pc = "c_feature"
    /\ \E o \in Outcomes(BuildMatchFeatures(ws[w].mid)) :
          LET r == Logged(ws[w], "feature", o) IN
          ws' = [ws EXCEPT ![w] =
                    [r EXCEPT !.pc = "c_model",
                              !.features = IF o.code = "OK" THEN o.features
                                           ELSE <<>>]]
    /\ UNCHANGED <<now, matches, cache, writer, nreq, aside>>

\* CallFeature that empties the cache when the call fails.
CallFeatureDroppingCache(w) ==
    /\ ws[w].pc = "c_feature"
    /\ \E o \in Outcomes(BuildMatchFeatures(ws[w].mid)) :
          LET r == Logged(ws[w], "feature", o) IN
          /\ ws' = [ws EXCEPT ![w] =
                       IF o.code = "OK"
                       THEN [r EXCEPT !.pc = "c_model", !.features = o.features]
                       ELSE Raised(r, o.code, "feature")]
          /\ cache' = IF o.code = "OK" THEN cache
                      ELSE [m \in MatchIds |-> None]
    /\ UNCHANGED <<now, matches, writer, nreq, aside>>

\* prediction_service.py:67-69  self._feature_stub.BuildMatchFeatures(...)
CallFeature(w) ==
    /\ ws[w].pc = "c_feature"
    /\ \E o \in Outcomes(BuildMatchFeatures(ws[w].mid)) :
          LET r == Logged(ws[w], "feature", o) IN
          ws' = [ws EXCEPT ![w] =
                    IF o.code = "OK"
                    THEN [r EXCEPT !.pc = "c_model", !.features = o.features]
                    ELSE Raised(r, o.code, "feature")]
    /\ UNCHANGED <<now, matches, cache, writer, nreq, aside>>

\* CallModel that does not look at the status: an error leaves the empty
\* response's zeros and the computation goes on.
CallModelUnchecked(w) ==
    /\ ws[w].pc = "c_model"
    /\ \E o \in Outcomes(PredictMatchOutcome(ws[w].features)) :
          LET r == Logged(ws[w], "model", o) IN
          ws' = [ws EXCEPT ![w] =
                    [r EXCEPT !.pc = "c_now",
                              !.model_resp = IF o.code = "OK" THEN o.probs
                                             ELSE <<0, 0, 0>>]]
    /\ UNCHANGED <<now, matches, cache, writer, nreq, aside>>

\* prediction_service.py:70-72  self._model_stub.PredictMatchOutcome(...)
CallModel(w) ==
    /\ ws[w].pc = "c_model"
    /\ \E o \in Outcomes(PredictMatchOutcome(ws[w].features)) :
          LET r == Logged(ws[w], "model", o) IN
          ws' = [ws EXCEPT ![w] =
                    IF o.code = "OK"
                    THEN [r EXCEPT !.pc = "c_now", !.model_resp = o.probs]
                    ELSE Raised(r, o.code, "model")]
    /\ UNCHANGED <<now, matches, cache, writer, nreq, aside>>

\* prediction_service.py:74  now_ts = time.time()
ReadClock(w) ==
    /\ ws[w].pc = "c_now"
    /\ ws' = [ws EXCEPT ![w] = [ws[w] EXCEPT !.now_ts = now, !.pc = "c_set"]]
    /\ UNCHANGED <<now, matches, cache, writer, nreq, aside>>

\* Stored with the draw and away probabilities exchanged.
StoredSwapped(r) ==
    Entry(r.now_ts, <<r.model_resp[1], r.model_resp[3], r.model_resp[2]>>)

\* prediction_service.py:75-81  the arguments of self._cache.set(...).
Stored(r) == Entry(r.now_ts, r.model_resp)

\* prediction_service.py:75-81 and 44-46: self._cache.set(match_id, now_ts,
\* ...) is called; nothing is acquired on the way in, so the worker is inside
\* set with the tuple of its arguments whatever the other workers do.
EnterSet(w) ==
    /\ ws[w].pc = "c_set"
    /\ ws' = [ws EXCEPT ![w] = [ws[w] EXCEPT !.pc = "c_store"]]
    /\ UNCHANGED <<now, matches, cache, writer, nreq, aside>>

\* CacheSet that leaves an entry already there as it is.
CacheSetIfAbsent(w) ==
    /\ ws[w].pc = "c_store"
    /\ cache' = [cache EXCEPT ![ws[w].mid] =
                    IF @ = None THEN Stored(ws[w]) ELSE @]
    /\ writer' = [writer EXCEPT ![ws[w].mid] = ws[w].rid]
    /\ ws' = [ws EXCEPT ![w] =
                 [Logged(ws[w], "set", [code |-> "OK"]) EXCEPT
                     !.pc = "c_ret", !.wrote = Stored(ws[w])]]
    /\ UNCHANGED <<now, matches, nreq, aside>>

\* CacheSet that stores field by field into the entry it finds: an entry
\* already there keeps its timestamp and gets the new probabilities.
CacheSetFieldwise(w) ==
    /\ ws[w].pc = "c_store"
    /\ cache' = [cache EXCEPT ![ws[w].mid] =
                    IF @ = None THEN Stored(ws[w])
                    ELSE Entry(@.ts, ws[w].model_resp)]
    /\ writer' = [writer EXCEPT ![ws[w].mid] = ws[w].rid]
    /\ ws' = [ws EXCEPT ![w] =
                 [Logged(ws[w], "set", [code |-> "OK"]) EXCEPT
                     !.pc = "c_ret", !.wrote = Stored(ws[w])]]
    /\ UNCHANGED <<now, matches, nreq, aside>>

\* prediction_service.py:47  self._data[match_id] = (timestamp, home, draw,
\* away): one store of the dictionary.
CacheSet(w) ==
    /\ ws[w].pc = "c_store"
    /\ cache' = [cache EXCEPT ![ws[w].mid] = Stored(ws[w])]
    /\ writer' = [writer EXCEPT ![ws[w].mid] = ws[w].rid]
    /\ ws' = [ws EXCEPT ![w] =
                 [Logged(ws[w], "set", [code |-> "OK"]) EXCEPT
                     !.pc = "c_ret", !.wrote = Stored(ws[w])]]
    /\ UNCHANGED <<now, matches, nreq, aside>>

\* The response prediction_service.py:83-89 builds.
Response(r) ==
    [status |-> "OK", match |-> r.match, probs |-> r.model_resp,
     src |-> r.rid, stored |-> r.wrote.probs]

\* prediction_service.py:83-89 and 110: GetPrediction returns the response.
ReturnGet(w) ==
    /\ ws[w].pc = "c_ret"
    /\ ws[w].op = "get"
    /\ ws' = [ws EXCEPT ![w] =
                 [Locals(ws[w]) EXCEPT !.pc = "done", !.res = Response(ws[w])]]
    /\ UNCHANGED <<now, matches, cache, writer, nreq, aside>>

\* StartStream whose generator goes through GetPrediction's cache lookup.
StartStreamThroughCache(w) ==
    /\ Free(w)
    /\ nreq < MaxReq
    /\ \E m \in MatchIds :
          ws' = [ws EXCEPT ![w] =
                    [IdleWorker EXCEPT !.op = "stream", !.pc = "g_get", !.mid = m,
                                       !.rid = nreq + 1,
                                       !.fresh0 = Served(cache[m], now)]]
    /\ nreq' = nreq + 1
    /\ UNCHANGED <<now, matches, cache, writer, aside>>

\* A free worker thread takes a StreamPrediction request and runs the
\* generator to its first computation (prediction_service.py:116-120).
StartStream(w) ==
    /\ Free(w)
    /\ nreq < MaxReq
    /\ \E m \in MatchIds :
          ws' = [ws EXCEPT ![w] =
                    [IdleWorker EXCEPT !.op = "stream", !.pc = "c_match", !.mid = m,
                                       !.rid = nreq + 1, !.path = "miss",
                                       !.fresh0 = Served(cache[m], now)]]
    /\ nreq' = nreq + 1
    /\ UNCHANGED <<now, matches, cache, writer, aside>>

\* prediction_service.py:120  yield self._compute_prediction(match_id): the
\* generator hands the response to the server and is suspended.  The server
\* sends it and resumes the generator only while the call is active; resumed,
\* the generator starts time.sleep(5.0) (prediction_service.py:121).
Yield(w) ==
    /\ ws[w].pc = "c_ret"
    /\ ws[w].op = "stream"
    /\ ws' = [ws EXCEPT ![w] =
                 IF ws[w].cancelled
                 THEN [Locals(ws[w]) EXCEPT !.pc = "ended", !.end = "cancelled"]
                 ELSE [Locals(ws[w]) EXCEPT !.pc = "s_sleep", !.res = Response(ws[w]),
                                !.emitted = @ + 1, !.wake = now + StreamInterval,
                                !.fresh0 = ws[w].fresh0]]
    /\ UNCHANGED <<now, matches, cache, writer, nreq, aside>>

\* Wake in which the generator returns after its sleep.
WakeAndReturn(w) ==
    /\ ws[w].pc = "s_sleep"
    /\ now >= ws[w].wake
    /\ nreq < MaxReq
    /\ ws' = [ws EXCEPT ![w] =
                 [ws[w] EXCEPT !.pc = "ended", !.end = "returned", !.wake = -1]]
    /\ UNCHANGED <<now, matches, cache, writer, nreq, aside>>

\* Wake that does not wait for the end of the sleep.
WakeAtOnce(w) ==
    /\ ws[w].pc = "s_sleep"
    /\ nreq < MaxReq
    /\ ws' = [ws EXCEPT ![w] =
                 [ws[w] EXCEPT !.pc = "c_match", !.log = <<>>, !.wake = -1,
                               !.rid = nreq + 1, !.late = ws[w].cancelled,
                               !.fresh0 = Served(cache[ws[w].mid], now)]]
    /\ nreq' = nreq + 1
    /\ UNCHANGED <<now, matches, cache, writer, aside>>

\* prediction_service.py:119-121: the sleep is over and the loop starts the
\* next computation.
Wake(w) ==
    /\ ws[w].pc = "s_sleep"
    /\ now >= ws[w].wake
    /\ nreq < MaxReq
    /\ ws' = [ws EXCEPT ![w] =
                 [ws[w] EXCEPT !.pc = "c_match", !.log = <<>>, !.wake = -1,
                               !.rid = nreq + 1, !.late = ws[w].cancelled,
                               !.fresh0 = Served(cache[ws[w].mid], now)]]
    /\ nreq' = nreq + 1
    /\ UNCHANGED <<now, matches, cache, writer, aside>>

\* The subscriber cancels the stream or disconnects.
Cancel(w) ==
    /\ ws[w].op = "stream"
    /\ ws[w].pc # "ended"
    /\ ~ws[w].cancelled
    /\ ws' = [ws EXCEPT ![w] = [ws[w] EXCEPT !.cancelled = TRUE]]
    /\ UNCHANGED <<now, matches, cache, writer, nreq, aside>>

\* prediction_service.py:91-110: the status the caller of GetPrediction
\* receives.  The handler sets no code on its context and catches nothing:
\* the RpcError a stub raised leaves it as an exception, which its server
\* reports as UNKNOWN whatever code the collaborator gave.
GetPredictionStatus(res) ==
    IF res.status = "OK" THEN "OK" ELSE "UNKNOWN"

\* gateway.py:91-108  predict: the HTTP status of /predict for the outcome of
\* the GetPrediction call it makes.
predict(res) ==
    LET code == GetPredictionStatus(res)
    IN  IF code = "OK" THEN 200
        ELSE IF code = "NOT_FOUND" THEN 404
        ELSE 500

Next ==
    \/ Tick
    \/ AddMatch
    \/ \E w \in Workers :
          \/ StartGet(w)
          \/ CacheGet(w)
          \/ FreshCheck(w)
          \/ HitGetMatch(w)
          \/ CallMatch(w)
          \/ CallFeature(w)
          \/ CallModel(w)
          \/ ReadClock(w)
          \/ EnterSet(w)
          \/ CacheSet(w)
          \/ ReturnGet(w)
          \/ StartStream(w)
          \/ Yield(w)
          \/ Wake(w)
          \/ Cancel(w)

Spec == Init /\ [][Next]_vars

\* One client that calls GetPrediction, waits for the answer and calls
\* again, over a longer time: the entries it finds are of every age up to
\* MaxSeqTicks intervals.
SeqTick ==
    /\ now < MaxSeqTicks * StreamInterval
    /\ now' = now + StreamInterval
    /\ UNCHANGED <<matches, cache, writer, ws, nreq, aside>>

SeqNext ==
    \/ SeqTick
    \/ AddMatch
    \/ StartGet(1)
    \/ CacheGet(1)
    \/ FreshCheck(1)
    \/ HitGetMatch(1)
    \/ CallMatch(1)
    \/ CallFeature(1)
    \/ CallModel(1)
    \/ ReadClock(1)
    \/ EnterSet(1)
    \/ CacheSet(1)
    \/ ReturnGet(1)

SeqSpec == Init /\ [][SeqNext]_vars

\* The elo differences of the vectors sent to the model service: the small
\* ones of real ratings, and large ones on both sides of the arguments for
\* which math.exp overflows.
EloDiffs ==
    {50 * d : d \in -30 .. 30}
        \cup {-300000, -212935, -212934, -177446, -177445, 300000}

\* request.features of model_service.py:31: [home_elo, away_elo, elo_diff,
\* is_knockout] and what follows them, cut to every length.
FeatureVectors ==
    {[i \in 1 .. n |-> CASE i = 1 -> 1500
                          [] i = 2 -> 1500 - d
                          [] i = 3 -> d
                          [] i = 4 -> k
                          [] OTHER -> e] :
        n \in 0 .. MaxFeatures, d \in EloDiffs, k \in {0, 1}, e \in {0, 7}}

\* A client calls PredictMatchOutcome of the model service with a vector of
\* its own.
ModelInit ==
    /\ now = 0
    /\ matches = [m \in MatchIds |-> IF m = "1" THEN DemoMatch ELSE None]
    /\ cache = [m \in MatchIds |-> None]
    /\ writer = [m \in MatchIds |-> 0]
    /\ ws = [w \in Workers |-> IdleWorker]
    /\ nreq = 0
    /\ model_rpc \in {[features |-> f, resp |-> None] : f \in FeatureVectors}
    /\ gateway = ColdGateway
    /\ users = EmptyUsers
    /\ scraper = IdleScraper

\* model_service.py:28-68: the handler answers the call.
ModelServe ==
    /\ model_rpc # None
    /\ model_rpc.resp = None
    /\ model_rpc' = [model_rpc EXCEPT
                        !.resp = PredictMatchOutcome(model_rpc.features)]
    /\ UNCHANGED <<pred, scraper, users, gateway>>

ModelNext == ModelServe

ModelSpec == ModelInit /\ [][ModelNext]_vars

\* One subscriber's stream on the first worker thread, the clock and the
\* match service.
LiveNext ==
    \/ Tick
    \/ AddMatch
    \/ StartStream(1)
    \/ CallMatch(1)
    \/ CallFeature(1)
    \/ CallModel(1)
    \/ ReadClock(1)
    \/ EnterSet(1)
    \/ CacheSet(1)
    \/ Yield(1)
    \/ Wake(1)
    \/ Cancel(1)

\* Time passes, and the thread that runs the generator is scheduled again and
\* again (prediction_service.py:116-123; serve gives the handler a thread of
\* its own, prediction_service.py:139): each step of the loop that can be
\* taken is taken.  Nothing obliges the subscriber to cancel.
LiveFairness ==
    /\ WF_vars(Tick)
    /\ WF_vars(CallMatch(1))
    /\ WF_vars(CallFeature(1))
    /\ WF_vars(CallModel(1))
    /\ WF_vars(ReadClock(1))
    /\ WF_vars(EnterSet(1))
    /\ WF_vars(CacheSet(1))
    /\ WF_vars(Yield(1))
    /\ WF_vars(Wake(1))

LiveSpec == Init /\ [][LiveNext]_vars /\ LiveFairness

\* ------------------------------------------------------------ the scraper

\* ensure_domain_allowed that takes an empty allow-list as no restriction.
DomainAllowedOrNoList(url, allowed_domains) ==
    allowed_domains = {} \/ url \in allowed_domains

\* scrape_wc2026.py:82-93  ensure_domain_allowed: TRUE when it returns, FALSE
\* when it raises ComplianceError.
ensure_domain_allowed(url, allowed_domains) ==
    allowed_domains # {} /\ url \in allowed_domains

\* scrape_wc2026.py:41-79, 170  parse_args: a run starts with its arguments.
ScraperRun ==
    /\ scraper.pc \in {"idle", "done", "aborted"}
    /\ \E h, d \in BOOLEAN, u \in Domains \cup {""}, a \in SUBSET Domains :
          scraper' = [IdleScraper EXCEPT !.pc = "main", !.html_file = h,
                                         !.url = u, !.allow = a,
                                         !.dry_run = d]
    /\ UNCHANGED <<pred, model_rpc, users, gateway>>

\* scrape_wc2026.py:176-187  main chooses the source of the HTML: the local
\* file, the download (after ensure_domain_allowed), or the bundled sample.
ScraperMain ==
    /\ scraper.pc = "main"
    /\ scraper' =
          IF scraper.html_file \/ scraper.url = ""
          THEN [scraper EXCEPT !.pc = "parse"]
          ELSE IF ensure_domain_allowed(scraper.url, scraper.allow)
          THEN [scraper EXCEPT !.pc = "robots"]
          ELSE [scraper EXCEPT !.pc = "aborted", !.error = "ComplianceError"]
    /\ UNCHANGED <<pred, model_rpc, users, gateway>>

\* scrape_wc2026.py:96-109  check_robots: the request for robots.txt cannot
\* be made (session.get raises), is answered with a status of 400 or more,
\* or is answered with rules that forbid or permit the URL.
CheckRobots ==
    /\ scraper.pc = "robots"
    /\ \E o \in {"unreachable", "status_400", "disallow", "allow"} :
          LET r == [scraper EXCEPT
                       !.sent = Append(@, [what |-> "robots", to |-> scraper.url]),
                       !.robots = o]
          IN  scraper' =
                CASE o = "unreachable" ->
                       [r EXCEPT !.pc = "aborted", !.error = "RequestException"]
                  [] o \in {"status_400", "disallow"} ->
                       [r EXCEPT !.pc = "aborted", !.error = "ComplianceError"]
                  [] OTHER -> [r EXCEPT !.pc = "fetch"]
    /\ UNCHANGED <<pred, model_rpc, users, gateway>>

\* scrape_wc2026.py:114-119  fetch_html: the request for the page, and
\* raise_for_status.
FetchPage ==
    /\ scraper.pc = "fetch"
    /\ \E o \in {"error", "ok"} :
          LET r == [scraper EXCEPT
                       !.sent = Append(@, [what |-> "page", to |-> scraper.url])]
          IN  scraper' =
                IF o = "ok" THEN [r EXCEPT !.pc = "parse"]
                ELSE [r EXCEPT !.pc = "aborted", !.error = "RequestException"]
    /\ UNCHANGED <<pred, model_rpc, users, gateway>>

\* scrape_wc2026.py:189-206: the HTML is parsed and the payload written,
\* unless the run is a dry run.
WriteOutput ==
    /\ scraper.pc = "parse"
    /\ scraper' = [scraper EXCEPT !.pc = "done",
                                   !.written = ~scraper.dry_run]
    /\ UNCHANGED <<pred, model_rpc, users, gateway>>

ScraperNext ==
    \/ ScraperRun
    \/ ScraperMain
    \/ CheckRobots
    \/ FetchPage
    \/ WriteOutput

ScraperSpec == Init /\ [][ScraperNext]_vars

\* ------------------------------------------------------- the user service

\* len(self._users_by_name)
RegisteredNames == {u \in Usernames : users.by_name[u] # 0}

\* user_service.py:45-47: a thread of the pool (user_service.py:68) takes a
\* Register request and calls self._repo.register.
Register(t) ==
    /\ users.th[t].pc \in {"idle", "done"}
    /\ users.nregs < MaxRegs
    /\ \E u \in Usernames, p \in Passwords :
          users' = [users EXCEPT
                       !.th[t] = [IdleRegister EXCEPT
                                     !.pc = "check", !.username = u,
                                     !.password = p,
                                     !.known = users.by_name[u] # 0],
                       !.nregs = @ + 1]
    /\ UNCHANGED <<pred, model_rpc, scraper, gateway>>

\* user_service.py:24-25 and 48-51: a username that is a key of
\* _users_by_name raises ValueError, which Register turns into
\* ALREADY_EXISTS and an empty response.
RegisterCheck(t) ==
    /\ users.th[t].pc = "check"
    /\ users' = IF users.by_name[users.th[t].username] # 0
                THEN [users EXCEPT !.th[t].pc = "done",
                                   !.th[t].code = "ALREADY_EXISTS"]
                ELSE [users EXCEPT !.th[t].pc = "new_id"]
    /\ UNCHANGED <<pred, model_rpc, scraper, gateway>>

\* user_service.py:26  user_id = f"user-{len(self._users_by_name) + 1}"
RegisterNewId(t) ==
    /\ users.th[t].pc = "new_id"
    /\ users' = [users EXCEPT !.th[t].pc = "store_name",
                              !.th[t].user_id = Cardinality(RegisteredNames) + 1]
    /\ UNCHANGED <<pred, model_rpc, scraper, gateway>>

\* user_service.py:27  self._users_by_name[username] = user_id
RegisterStoreName(t) ==
    /\ users.th[t].pc = "store_name"
    /\ users' = [users EXCEPT
                    !.by_name[users.th[t].username] = users.th[t].user_id,
                    !.th[t].pc = "store_password"]
    /\ UNCHANGED <<pred, model_rpc, scraper, gateway>>

\* user_service.py:29-30 and 52: self._passwords[user_id] = password, and the
\* response carries the id.
RegisterStorePassword(t) ==
    /\ users.th[t].pc = "store_password"
    /\ users' = [users EXCEPT
                    !.passwords[users.th[t].user_id] = users.th[t].password,
                    !.th[t].pc = "done", !.th[t].code = "OK",
                    !.th[t].ret = users.th[t].user_id]
    /\ UNCHANGED <<pred, model_rpc, scraper, gateway>>

\* The threads of the pool run side by side: register takes no lock, and a
\* thread can be switched out between any two of its lines.
UserNext ==
    \E t \in UserThreads :
        \/ Register(t)
        \/ RegisterCheck(t)
        \/ RegisterNewId(t)
        \/ RegisterStoreName(t)
        \/ RegisterStorePassword(t)

UserSpec == Init /\ [][UserNext]_vars

\* ----------------------------------------------------------- the gateway

\* How a call of _load_wc2026_data that raises ends: the exception leaves
\* on_startup and the gateway does not start, or leaves the request handler
\* and the gateway goes on.
LoadRaises(g) ==
    [g EXCEPT !.pc = IF g.startup THEN "down" ELSE "idle",
              !.ret = FileNotFound]

\* gateway.py:68-76  on_startup: _load_wc2026_data(force=True).
Startup ==
    /\ gateway.pc = "cold"
    /\ gateway' = [gateway EXCEPT !.pc = "check", !.force = TRUE,
                                  !.startup = TRUE, !.changed = FALSE]
    /\ UNCHANGED <<pred, model_rpc, scraper, users>>

\* gateway.py:111-119  get_wc2026 (force=False) and reload_wc2026
\* (force=True) call the loader.  The handlers are coroutines of one event
\* loop and call it without awaiting, and it holds _wc2026_lock throughout:
\* one call is in progress at a time.
Load ==
    /\ gateway.pc = "idle"
    /\ gateway.nloads < MaxLoads
    /\ \E f \in BOOLEAN :
          gateway' = [gateway EXCEPT !.pc = "check", !.force = f,
                                     !.startup = FALSE, !.ret = None,
                                     !.changed = FALSE, !.nloads = @ + 1]
    /\ UNCHANGED <<pred, model_rpc, scraper, users>>

\* gateway.py:50-53: a call that is not forced returns the cached dataset
\* when the file's modification time is the recorded one.
LoadCheck ==
    /\ gateway.pc = "check"
    /\ LET current_mtime == IF gateway.file = None THEN None
                            ELSE gateway.file.mtime
       IN  gateway' =
             IF ~gateway.force /\ gateway.cache # None
                /\ current_mtime = gateway.mtime
             THEN [gateway EXCEPT !.pc = "idle", !.ret = gateway.cache]
             ELSE [gateway EXCEPT !.pc = "exists"]
    /\ UNCHANGED <<pred, model_rpc, scraper, users>>

\* gateway.py:55-59: without a data file the empty dataset is cached and
\* returned.
LoadExists ==
    /\ gateway.pc = "exists"
    /\ gateway' =
          IF gateway.file = None
          THEN [gateway EXCEPT !.cache = EmptyData, !.mtime = None,
                               !.pc = "idle", !.ret = EmptyData]
          ELSE [gateway EXCEPT !.pc = "read"]
    /\ UNCHANGED <<pred, model_rpc, scraper, users>>

\* gateway.py:61-62: the file is opened and _wc2026_cache = json.load(fp).
LoadRead ==
    /\ gateway.pc = "read"
    /\ gateway' =
          IF gateway.file = None THEN LoadRaises(gateway)
          ELSE [gateway EXCEPT !.cache = Data(gateway.file.content),
                               !.pc = "stat"]
    /\ UNCHANGED <<pred, model_rpc, scraper, users>>

\* gateway.py:63-65: _wc2026_mtime = DATA_FILE.stat().st_mtime, a stat of
\* the path, and the cached dataset is returned.
LoadStat ==
    /\ gateway.pc = "stat"
    /\ gateway' =
          IF gateway.file = None THEN LoadRaises(gateway)
          ELSE [gateway EXCEPT !.mtime = gateway.file.mtime,
                               !.pc = "idle", !.ret = gateway.cache]
    /\ UNCHANGED <<pred, model_rpc, scraper, users>>

\* Another process (scripts/scrape_wc2026.py:203-204, or an editor) replaces
\* the data file: new content and a later modification time.
FileWrite ==
    /\ gateway.nwrites < MaxWrites
    /\ gateway' = [gateway EXCEPT
                      !.file = [content |-> gateway.nwrites + 1,
                                mtime |-> Mtime(gateway.nwrites + 1)],
                      !.changed = TRUE, !.nwrites = @ + 1]
    /\ UNCHANGED <<pred, model_rpc, scraper, users>>

\* Another process removes the data file.
FileRemove ==
    /\ gateway.nwrites < MaxWrites
    /\ gateway.file # None
    /\ gateway' = [gateway EXCEPT !.file = None, !.changed = TRUE,
                                  !.nwrites = @ + 1]
    /\ UNCHANGED <<pred, model_rpc, scraper, users>>

GatewayNext ==
    \/ Startup
    \/ Load
    \/ LoadCheck
    \/ LoadExists
    \/ LoadRead
    \/ LoadStat
    \/ FileWrite
    \/ FileRemove

GatewaySpec == Init /\ [][GatewayNext]_vars

\* ------------------------------------------------------------- properties

\* The fan-out of one computation, in the order of prediction_service.py:64-81.
FanOut == <<"match", "feature", "model", "set">>

Calls(log) == [i \in 1 .. Len(log) |-> log[i].call]

IsPrefix(s, t) == Len(s) <= Len(t) /\ \A i \in 1 .. Len(s) : s[i] = t[i]

AllOk(log) == \A i \in 1 .. Len(log) : log[i].code = "OK"

\* Worker w has answered a GetPrediction request with a response.
Answered(w) ==
    ws[w].op = "get" /\ ws[w].pc = "done" /\ ws[w].res.status = "OK"

\* Worker w's GetPrediction request has failed.
Failed(w) ==
    ws[w].op = "get" /\ ws[w].pc = "done" /\ ws[w].res.status = "FAILED"

\* Request b was answered from the entry that request a computed and wrote.
Repeats(a, b) ==
    /\ Answered(a) /\ ws[a].path = "miss"
    /\ Answered(b) /\ ws[b].path = "hit"
    /\ ws[a].mid = ws[b].mid
    /\ ws[b].res.src = ws[a].rid

\* C1: a GetPrediction answered within the freshness window from the entry
\* that an earlier GetPrediction computed returns the probabilities the
\* earlier call returned, and calls the match service only: neither the
\* feature service nor the model service.
C1_RepeatWithinWindowIsServedFromCache ==
    \A a, b \in Workers :
        Repeats(a, b) =>
            /\ ws[b].res.probs = ws[a].res.probs
            /\ ws[b].age >= 0 /\ ws[b].age < FreshnessWindow
            /\ Calls(ws[b].log) = <<"match">>

\* A second call has been answered from the first call's entry, which was
\* one clock step old.
C1_Witness ==
    \E a, b \in Workers : Repeats(a, b) /\ ws[b].age = StreamInterval

\* C2: when the match service reports NOT_FOUND to GetPrediction, that call is
\* the request's last: the request has failed without a feature or model
\* call and without a cache write; and an id the match service does not know
\* has no cache entry.
C2_NotFoundStopsTheRequest ==
    /\ \A w \in Workers :
          \A i \in 1 .. Len(ws[w].log) :
              (ws[w].op = "get" /\ ws[w].log[i] = [call |-> "match", code |-> "NOT_FOUND", ret |-> None])
              => /\ i = Len(ws[w].log)
                 /\ Failed(w)
                 /\ ws[w].res.code = "NOT_FOUND"
                 /\ Calls(ws[w].log) = <<"match">>
    /\ \A m \in MatchIds : matches[m] = None => cache[m] = None

\* A GetPrediction for the unknown id has failed with NOT_FOUND while the
\* cache holds an entry for another id.
C2_Witness ==
    \E w \in Workers :
        /\ Failed(w) /\ ws[w].mid = "X" /\ ws[w].res.code = "NOT_FOUND"
        /\ cache["1"] # None /\ cache["X"] = None

\* A step in which a feature or model call of worker w ends with an error.
CollaboratorError(w) ==
    /\ ws[w].pc \in {"c_feature", "c_model"}
    /\ Len(ws'[w].log) = Len(ws[w].log) + 1
    /\ ws'[w].log[Len(ws'[w].log)].code # "OK"

C4_FanOutInOrder ==
    \A w \in Workers :
        /\ IsPrefix(Calls(ws[w].log), FanOut)
        /\ AllOk(SubSeq(ws[w].log, 1, Len(ws[w].log) - 1))
        /\ ws[w].pc = "c_feature" => Calls(ws[w].log) = <<"match">> /\ AllOk(ws[w].log)
        /\ ws[w].pc = "c_model" => Calls(ws[w].log) = <<"match", "feature">> /\ AllOk(ws[w].log)
        /\ ws[w].pc \in {"c_now", "c_set", "c_store"} =>
              Calls(ws[w].log) = <<"match", "feature", "model">> /\ AllOk(ws[w].log)
        /\ (ws[w].pc = "c_ret" \/ (Answered(w) /\ ws[w].path = "miss") \/ ws[w].pc = "s_sleep")
              => Calls(ws[w].log) = FanOut /\ AllOk(ws[w].log)

\* A GetPrediction that found a stale entry has computed and returned.
C4_Witness ==
    \E w \in Workers :
        /\ Answered(w) /\ ws[w].path = "miss" /\ ws[w].age >= FreshnessWindow
        /\ Calls(ws[w].log) = FanOut

\* C5: a tick of the streaming loop that begins after the subscriber's
\* cancellation issues no call and writes no cache entry: the loop has
\* stopped before it.
C5_NoFanOutAfterCancel ==
    \A w \in Workers : ws[w].late => ws[w].log = <<>>

\* C6: no stream ends because a collaborator's call failed in one of its
\* ticks: the generator ends only on the subscriber's cancellation.
C6_FailedTickKeepsStreamOpen ==
    \A w \in Workers :
        (ws[w].op = "stream" /\ ws[w].pc = "ended") => ws[w].end = "cancelled"

\* C7: the streaming generator never goes through the cache lookup, and the
\* response of every emission is the one its own tick computed with all
\* three calls and wrote.
C7_StreamAlwaysRecomputes ==
    \A w \in Workers :
        ws[w].op = "stream" =>
            /\ ws[w].pc \in {"c_match", "c_feature", "c_model", "c_now", "c_set",
                             "c_store", "c_ret", "s_sleep", "ended"}
            /\ ws[w].cached = None
            /\ ws[w].pc = "s_sleep" =>
                  /\ Calls(ws[w].log) = FanOut /\ AllOk(ws[w].log)
                  /\ ws[w].res.status = "OK"
                  /\ ws[w].res.src = ws[w].rid
                  /\ ws[w].emitted >= 1

\* A stream has emitted the response of a tick that began while the cache
\* held a fresh entry for its match id.
C7_Witness ==
    \E w \in Workers :
        ws[w].op = "stream" /\ ws[w].pc = "s_sleep" /\ ws[w].fresh0

\* The match calls in a log.
MatchCalls(log) == {i \in 1 .. Len(log) : log[i].call = "match"}

\* C8: a GetPrediction that returns a response, from the cache or computed,
\* has called the match service exactly once, and the response carries the
\* match that call returned; a cache entry holds a timestamp and the
\* probabilities only.
C8_MatchFetchedOncePerResponse ==
    /\ \A w \in Workers :
          Answered(w) =>
              /\ Cardinality(MatchCalls(ws[w].log)) = 1
              /\ \A i \in MatchCalls(ws[w].log) :
                    ws[w].log[i].code = "OK" /\ ws[w].res.match = ws[w].log[i].ret
    /\ \A m \in MatchIds : cache[m] # None => DOMAIN cache[m] = {"ts", "probs"}

\* A repeated call was served the cached probabilities with a match that
\* differs from the one the computing call returned.
C8_Witness ==
    \E a, b \in Workers : Repeats(a, b) /\ ws[a].res.match # ws[b].res.match

\* C9: GetPrediction takes the hit path exactly when the lookup found an entry
\* whose age at the freshness test is below 10; on the hit path the response
\* is the cached triple and nothing is computed, otherwise a returned
\* response comes from the full fan-out.
C9_ServedIffYoungerThanWindow ==
    \A w \in Workers :
        (ws[w].op = "get" /\ ws[w].path # "") =>
            /\ ws[w].path = "hit" <=> (ws[w].age >= 0 /\ ws[w].age < FreshnessWindow)
            /\ (Answered(w) /\ ws[w].path = "hit") =>
                  Calls(ws[w].log) = <<"match">> /\ ws[w].res.stored = None
            /\ (Answered(w) /\ ws[w].path = "miss") =>
                  Calls(ws[w].log) = FanOut /\ ws[w].res.stored = ws[w].res.probs

\* A GetPrediction that found an entry aged exactly 10 has recomputed.
C9_Witness ==
    \E w \in Workers :
        Answered(w) /\ ws[w].path = "miss" /\ ws[w].age = FreshnessWindow

\* C10: the entry a computation writes holds the triple the model returned to
\* it, which is the triple it returns; no timestamp is read before the model
\* has answered, and the one read is not later than the clock at the write;
\* until another write the cache holds that entry.
C10_WritesWhatItReturns ==
    \A w \in Workers :
        /\ ws[w].pc \in {"c_match", "c_feature", "c_model", "c_now"} =>
              ws[w].now_ts = -1
        /\ ws[w].pc \in {"c_set", "c_store"} =>
              0 <= ws[w].now_ts /\ ws[w].now_ts <= now
        /\ ws[w].pc = "c_ret" =>
              /\ ws[w].wrote = Entry(ws[w].now_ts, ws[w].model_resp)
              /\ writer[ws[w].mid] = ws[w].rid => cache[ws[w].mid] = ws[w].wrote
              /\ Response(ws[w]).probs = ws[w].wrote.probs
        /\ ((Answered(w) /\ ws[w].path = "miss") \/ ws[w].pc = "s_sleep") =>
              ws[w].res.probs = ws[w].res.stored

\* A GetPrediction has computed and returned, and the cache holds the triple
\* it returned under a timestamp that the clock has passed since.
C10_Witness ==
    \E w \in Workers :
        /\ Answered(w) /\ ws[w].path = "miss"
        /\ writer[ws[w].mid] = ws[w].rid
        /\ cache[ws[w].mid].probs = ws[w].res.probs
        /\ cache[ws[w].mid].ts < now

\* C11: a GetPrediction that failed because the match service reported
\* NOT_FOUND reaches its caller as NOT_FOUND, and /predict answers 404.
C11_NotFoundReachesCaller ==
    \A w \in Workers :
        (Failed(w) /\ ws[w].res.code = "NOT_FOUND") =>
            /\ GetPredictionStatus(ws[w].res) = "NOT_FOUND"
            /\ predict(ws[w].res) = 404

\* Worker w is inside SimplePredictionCache.set for its match id.
InCacheSet(w) == ws[w].pc = "c_store"

\* C12: the cache accesses for one match id exclude each other: no two
\* workers are inside a cache write for the same id at the same time.
C12_CacheAccessesExclusive ==
    \A a, b \in Workers :
        (a # b /\ InCacheSet(a) /\ InCacheSet(b)) => ws[a].mid # ws[b].mid

\* C13: computations for one match id may run side by side, and the entry of
\* an id is at all times the whole tuple of one computation, the last one
\* that wrote: every step that changes the entry or its writer is the store
\* of one worker and leaves exactly that worker's timestamp and triple.
C13_EntryIsOneWritersTuple ==
    /\ [](\A m \in MatchIds : (cache[m] = None) <=> (writer[m] = 0))
    /\ [][\A m \in MatchIds :
            (cache'[m] # cache[m] \/ writer'[m] # writer[m]) =>
                \E w \in Workers :
                    /\ InCacheSet(w) /\ ws[w].mid = m /\ ws'[w].pc = "c_ret"
                    /\ cache'[m] = Entry(ws[w].now_ts, ws[w].model_resp)
                    /\ writer'[m] = ws[w].rid]_vars

\* Two computations for the same id ran side by side and wrote different
\* tuples; the cache holds the tuple of the one that wrote last.
C13_Witness ==
    \E a, b \in Workers :
        /\ a # b /\ ws[a].mid = ws[b].mid
        /\ ws[a].pc = "c_ret" /\ ws[b].pc = "c_ret"
        /\ ws[a].wrote # ws[b].wrote
        /\ writer[ws[a].mid] = ws[a].rid /\ cache[ws[a].mid] = ws[a].wrote

\* C14: a request or tick that fails has written nothing; the step in which
\* it fails leaves the whole cache as it was; and every step of a worker
\* leaves the other workers' requests and the entries of the other match ids
\* as they were.
C14_FailureIsIsolated ==
    /\ [](\A w \in Workers :
            ws[w].res.status = "FAILED" =>
                \A i \in 1 .. Len(ws[w].log) : ws[w].log[i].call # "set")
    /\ [][\A a \in Workers :
            ws'[a] # ws[a] =>
                /\ \A b \in Workers \ {a} : ws'[b] = ws[b]
                /\ \A m \in MatchIds \ {ws'[a].mid} : cache'[m] = cache[m]
                /\ (ws'[a].res.status = "FAILED" /\ ws[a].res.status # "FAILED")
                      => cache' = cache /\ writer' = writer]_vars

\* A request failed at a collaborator while a computation for another id,
\* begun before it, was under way; that computation has written its entry.
C14_Witness ==
    \E a, b \in Workers :
        /\ ws[a].mid # ws[b].mid /\ ws[a].rid > ws[b].rid
        /\ Failed(a) /\ ws[a].res.code = "UNAVAILABLE"
        /\ ws[b].pc = "c_ret" /\ cache[ws[b].mid] = ws[b].wrote

\* C15: the cache changes only in the store that ends a computation whose
\* three calls succeeded, and only in the entry of that computation's match
\* id; every other step (of a lookup, a freshness test, a call, a failure,
\* a return, the stream's yield, sleep and cancellation, the clock, the match
\* repository) leaves every entry as it is, and no entry is ever removed.
C15_OnlyTheFinalWriteChangesTheCache ==
    [][/\ cache' # cache =>
            \E w \in Workers :
                /\ InCacheSet(w) /\ ws'[w].pc = "c_ret"
                /\ Calls(ws[w].log) = <<"match", "feature", "model">>
                /\ AllOk(ws[w].log)
                /\ \A m \in MatchIds \ {ws[w].mid} : cache'[m] = cache[m]
       /\ \A w \in Workers :
            (ws'[w] # ws[w] /\ ~InCacheSet(w)) => cache' = cache
       /\ (\A w \in Workers : ws'[w] = ws[w]) => cache' = cache
       /\ \A m \in MatchIds : cache[m] # None => cache'[m] # None]_vars

\* A lookup has found an entry written earlier and taken the hit path, and
\* the entry still carries the timestamp of its computation.
C15_Witness ==
    \E w \in Workers :
        /\ ws[w].pc = "g_hit" /\ ws[w].age > 0
        /\ cache[ws[w].mid] = ws[w].cached
        /\ cache[ws[w].mid].ts = now - ws[w].age

\* C16: a stream starts in its first computation with no wait pending; it
\* emits only at the end of a computation that made the whole fan-out once,
\* and the emission starts one wait of 5; the wait ends only when 5 have
\* passed, and it ends in the start of the next computation; a computation
\* starts only there or at the start of the stream.
C16_EmitWaitComputeEmit ==
    [][\A w \in Workers :
          (ws'[w].op = "stream" /\ ws'[w] # ws[w]) =>
            /\ ws[w].pc \in {"idle", "done", "ended"} =>
                  /\ ws'[w].pc = "c_match" /\ ws'[w].log = <<>>
                  /\ ws'[w].emitted = 0 /\ ws'[w].wake = -1
            /\ (ws[w].pc \notin {"idle", "done", "ended"}
                  /\ ws'[w].emitted # ws[w].emitted) =>
                  /\ ws'[w].emitted = ws[w].emitted + 1
                  /\ ws[w].pc = "c_ret" /\ ws'[w].pc = "s_sleep"
                  /\ Calls(ws[w].log) = FanOut /\ AllOk(ws[w].log)
                  /\ ws'[w].wake = now + StreamInterval
            /\ (ws[w].pc = "s_sleep" /\ ws'[w].pc # "s_sleep") =>
                  /\ now >= ws[w].wake
                  /\ ws'[w].pc = "c_match" /\ ws'[w].log = <<>>
                  /\ ws'[w].emitted = ws[w].emitted
            /\ (ws'[w].pc = "c_match" /\ ws[w].pc # "c_match") =>
                  ws[w].pc \in {"idle", "done", "ended", "s_sleep"}]_vars

\* A stream has emitted twice.
C16_Witness ==
    \E w \in Workers :
        ws[w].op = "stream" /\ ws[w].pc = "s_sleep" /\ ws[w].emitted = 2

\* C17: a store leaves, whatever was there, exactly the timestamp and triple
\* it was given and touches no other id; a later lookup of the id with the
\* entry younger than the window answers with the stored triple, and one
\* with the entry older than the window finds nothing to serve.
C17_CacheRoundTrip ==
    /\ [][\A w \in Workers :
            (InCacheSet(w) /\ ws'[w].pc = "c_ret") =>
                /\ cache'[ws[w].mid] = Entry(ws[w].now_ts, ws[w].model_resp)
                /\ \A m \in MatchIds \ {ws[w].mid} : cache'[m] = cache[m]]_vars
    /\ [](\A w \in Workers :
            (ws[w].op = "get" /\ ws[w].path # "" /\ ws[w].age >= 0) =>
                /\ ws[w].age < FreshnessWindow => ws[w].path = "hit"
                /\ ws[w].age > FreshnessWindow => ws[w].path = "miss"
                /\ ws[w].pc = "g_hit" =>
                      /\ ws[w].cached = cache[ws[w].mid]
                      /\ ws[w].age <= now - cache[ws[w].mid].ts
                /\ (Answered(w) /\ ws[w].path = "hit") =>
                      ws[w].res.probs = cache[ws[w].mid].probs)

\* A lookup found an entry older than the window, and the computation it led
\* to has stored over that entry.
C17_Witness ==
    \E w \in Workers :
        /\ ws[w].pc = "c_ret" /\ ws[w].age > FreshnessWindow
        /\ ws[w].cached # None /\ ws[w].cached # ws[w].wrote
        /\ cache[ws[w].mid] = ws[w].wrote

\* The model service has answered a call with a vector of four or more.
ModelAnswered ==
    /\ model_rpc # None
    /\ model_rpc.resp # None
    /\ Len(model_rpc.features) >= MinFeatures

\* C18: for every vector of four or more elements the model service returns
\* three probabilities, each between 0 and 1, whose sum is 1 (to the three
\* units that fixed-point division can lose).
C18_ProbabilitiesAreADistribution ==
    ModelAnswered =>
        /\ model_rpc.resp.code = "OK"
        /\ \A i \in 1 .. 3 :
              model_rpc.resp.probs[i] >= 0 /\ model_rpc.resp.probs[i] <= Scale
        /\ Abs(model_rpc.resp.probs[1] + model_rpc.resp.probs[2]
                  + model_rpc.resp.probs[3] - Scale) <= 3

\* C19: for elo_diff 0 and knockout indicator 0 the draw probability is at
\* its ceiling 0.35 (to 0.01) and the home-win and away-win probabilities
\* differ by at most 0.05.
C19_EvenMatchIsSymmetric ==
    (ModelAnswered /\ model_rpc.features[3] = 0 /\ model_rpc.features[4] = 0) =>
        /\ model_rpc.resp.code = "OK"
        /\ Abs(model_rpc.resp.probs[2] - 350) <= Scale \div 100
        /\ Abs(model_rpc.resp.probs[1] - model_rpc.resp.probs[3]) <= Scale \div 20

\* C20: the model service answers INVALID_ARGUMENT exactly for the vectors
\* of fewer than four elements; for every other vector it returns the
\* probabilities of the vector's first four elements.
C20_InvalidArgumentIffShort ==
    (model_rpc # None /\ model_rpc.resp # None) =>
        /\ model_rpc.resp.code = "INVALID_ARGUMENT"
              <=> Len(model_rpc.features) < MinFeatures
        /\ Len(model_rpc.features) >= MinFeatures =>
              /\ model_rpc.resp.code = "OK"
              /\ model_rpc.resp =
                    PredictMatchOutcome(SubSeq(model_rpc.features, 1, MinFeatures))

\* The run has sent the request for the page of --source-url.
PageRequested ==
    \E i \in 1 .. Len(scraper.sent) : scraper.sent[i].what = "page"

\* The run has fetched robots.txt of the URL's domain and it permits the URL.
RobotsPermit ==
    /\ Len(scraper.sent) >= 1
    /\ scraper.sent[1] = [what |-> "robots", to |-> scraper.url]
    /\ scraper.robots = "allow"

\* The request for the page is made only as the second request of the run,
\* to an allow-listed domain whose robots.txt was the first and permits it;
\* a run for a domain that is not allow-listed sends nothing.
OnlyCompliantFetch ==
    /\ PageRequested =>
          /\ scraper.allow # {} /\ scraper.url \in scraper.allow
          /\ RobotsPermit
          /\ scraper.sent = <<[what |-> "robots", to |-> scraper.url],
                               [what |-> "page", to |-> scraper.url]>>
    /\ scraper.url \notin scraper.allow => scraper.sent = <<>>

\* C21: the page is requested only under the allow-list and robots.txt; a
\* run given a --source-url for which they do not hold ends aborted by a
\* ComplianceError, the page not requested.
C21_FetchOnlyIfCompliantElseComplianceError ==
    /\ OnlyCompliantFetch
    /\ (scraper.pc \in {"parse", "done", "aborted"} /\ scraper.url # ""
          /\ ~(scraper.url \in scraper.allow /\ RobotsPermit)) =>
            /\ scraper.pc = "aborted" /\ scraper.error = "ComplianceError"
            /\ ~PageRequested

\* C21 as amended: the page is requested only under the allow-list and
\* robots.txt; a run that is to download the page (--source-url without
\* --html-file) and for which they do not hold ends aborted, the page not
\* requested: by a ComplianceError, or by the exception of the request for
\* robots.txt when that request could not be made.
C21_FetchOnlyIfCompliantElseAbort ==
    /\ OnlyCompliantFetch
    /\ (scraper.pc \in {"parse", "done", "aborted"} /\ scraper.url # ""
          /\ ~scraper.html_file
          /\ ~(scraper.url \in scraper.allow /\ RobotsPermit)) =>
            /\ scraper.pc = "aborted" /\ ~PageRequested
            /\ scraper.error = IF scraper.robots = "unreachable"
                                THEN "RequestException" ELSE "ComplianceError"
    /\ (scraper.html_file /\ scraper.pc # "idle") => scraper.sent = <<>>

\* A run has downloaded the page after robots.txt permitted it.
C21_Witness ==
    scraper.pc = "done" /\ PageRequested /\ RobotsPermit

\* The matches the match service can hold under id m.
MatchesOf(m) ==
    (IF m = "1" THEN {DemoMatch} ELSE {}) \cup {a[2] : a \in {b \in Addable : b[1] = m}}

\* By match id, the triples the model service returns with OK for the
\* features of a match of that id.
ModelTriples ==
    [m \in MatchIds |->
        {PredictMatchOutcome(BuildFeatures(mt)).probs :
            mt \in {x \in MatchesOf(m) :
                      PredictMatchOutcome(BuildFeatures(x)).code = "OK"}}]

\* C22: every entry of the cache holds a triple the model service returns
\* with OK for a match of the entry's id, and every step that changes the
\* entry of an id is the store of a computation for that id whose match,
\* feature and model calls all ended OK and whose model call returned the
\* triple stored for the features the feature call built from a match of
\* that id: never a default, partial or invalid triple.
C22_CacheHoldsOnlySuccessfulTriples ==
    /\ [](\A m \in MatchIds :
            cache[m] # None => cache[m].probs \in ModelTriples[m])
    /\ [][\A m \in MatchIds :
            cache'[m] # cache[m] =>
                \E w \in Workers :
                    /\ ws[w].pc = "c_store" /\ ws[w].mid = m
                    /\ Calls(ws[w].log) = <<"match", "feature", "model">>
                    /\ AllOk(ws[w].log)
                    /\ ws[w].match = ws[w].log[1].ret
                    /\ ws[w].match \in MatchesOf(m)
                    /\ \E x \in MatchesOf(m) :
                          ws[w].features = BuildFeatures(x)
                    /\ PredictMatchOutcome(ws[w].features) =
                          [code |-> "OK", probs |-> cache'[m].probs]]_vars

\* A computation for the match moved to the group stage has stored its
\* triple, which differs from the triple of the final.
C22_Witness ==
    \E w \in Workers :
        /\ ws[w].pc = "c_ret" /\ cache[ws[w].mid] = ws[w].wrote
        /\ ws[w].match = Match("ARG", "FRA", "Group")
        /\ ws[w].wrote.probs # PredictMatchOutcome(BuildFeatures(DemoMatch)).probs

\* Worker a runs a stream whose last tick has stored its entry and has
\* emitted it or is about to.
StreamTick(a) ==
    ws[a].op = "stream" /\ ws[a].pc \in {"c_ret", "s_sleep"}

\* The probabilities of that tick.
TickProbs(a) ==
    IF ws[a].pc = "c_ret" THEN ws[a].model_resp ELSE ws[a].res.probs

\* The request or tick whose entry the lookup of GetPrediction request b
\* read, 0 when it read none or recomputed.
ReadFrom(b) ==
    IF ws[b].pc # "done" THEN ws[b].src
    ELSE IF ws[b].res.status = "OK" /\ ws[b].path = "hit" THEN ws[b].res.src
    ELSE 0

\* C23: a GetPrediction whose lookup read the entry a stream tick stored (no
\* later write for the id came before the lookup) takes the hit path exactly
\* when its freshness test finds the entry younger than the window; on the
\* hit path its only outbound call is the match call and the answer it
\* returns carries the tick's probabilities.
C23_TickFeedsGetPrediction ==
    \A a, b \in Workers :
        (StreamTick(a) /\ ws[b].op = "get" /\ ReadFrom(b) = ws[a].rid
           /\ ws[b].pc # "g_fresh") =>
            /\ ws[b].mid = ws[a].mid
            /\ ws[b].age >= 0
            /\ (ws[b].age < FreshnessWindow) <=> (ws[b].path = "hit")
            /\ ws[b].path = "hit" =>
                  /\ IsPrefix(Calls(ws[b].log), <<"match">>)
                  /\ ws[b].pc = "g_hit" => ws[b].cached.probs = TickProbs(a)
                  /\ Answered(b) =>
                        /\ ws[b].res.probs = TickProbs(a)
                        /\ Calls(ws[b].log) = <<"match">>

\* A GetPrediction has been answered, one clock step after the tick, from
\* the entry of a stream that is asleep.
C23_Witness ==
    \E a, b \in Workers :
        /\ StreamTick(a) /\ ws[a].pc = "s_sleep"
        /\ Answered(b) /\ ReadFrom(b) = ws[a].rid
        /\ ws[b].age = StreamInterval

\* The stream of the first worker sleeps after its k-th emission, not
\* cancelled, and the clock and the request numbers of the model have room
\* for the next tick.
AsleepAfter(k) ==
    /\ ws[1].op = "stream" /\ ws[1].pc = "s_sleep"
    /\ ws[1].emitted = k /\ ~ws[1].cancelled
    /\ nreq < MaxReq
    /\ ws[1].wake <= MaxTicks * StreamInterval

\* C24: the stream does not end on its own.  Under fair scheduling every
\* emission of a stream is followed by another emission of that stream,
\* unless the subscriber cancels or a collaborator call fails.
C24_StreamKeepsEmitting ==
    \A k \in 1 .. MaxReq :
        AsleepAfter(k) ~>
            \/ ws[1].op = "stream" /\ ws[1].emitted = k + 1
            \/ ws[1].op = "stream" /\ ws[1].cancelled
            \/ ws[1].op = "stream" /\ ws[1].end = "rpc_error"

\* A stream that was not cancelled has emitted a second result.
C24_Witness ==
    /\ ws[1].op = "stream" /\ ws[1].pc = "s_sleep"
    /\ ws[1].emitted = 2 /\ ~ws[1].cancelled

\* C25: the timestamp of an id's entry never decreases: every step that
\* changes the entry of an id that has one leaves a timestamp at least as
\* large as the one it overwrites.
C25_TimestampNeverDecreases ==
    [][\A m \in MatchIds :
          (cache[m] # None /\ cache'[m] # cache[m]) =>
              cache'[m] # None /\ cache'[m].ts >= cache[m].ts]_vars

\* Thread t is storing its password over the password stored for a user of
\* another name.
OverwritesAnother(t) ==
    /\ users.th[t].pc = "store_password"
    /\ users'.th[t].pc = "done"
    /\ users.passwords[users.th[t].user_id] # ""
    /\ \E u \in Usernames :
          u # users.th[t].username /\ users.by_name[u] = users.th[t].user_id

\* C26: whatever the interleaving of concurrent Register calls, two
\* usernames never have the same user id, no registration stores its
\* password over the password of a user of another name, a call for a
\* username that was registered when it arrived ends with ALREADY_EXISTS,
\* and no step changes the id stored for a registered username.
C26_RegisterIsAtomic ==
    /\ [](\A u, v \in Usernames :
            (u # v /\ users.by_name[u] # 0) =>
                users.by_name[u] # users.by_name[v])
    /\ [](\A t \in UserThreads :
            (users.th[t].pc = "done" /\ users.th[t].known) =>
                users.th[t].code = "ALREADY_EXISTS")
    /\ [][\A t \in UserThreads : ~OverwritesAnother(t)]_vars
    /\ [][\A u \in Usernames :
            users.by_name[u] # 0 => users'.by_name[u] = users.by_name[u]]_vars

\* The dataset the data file holds now.
ContentOf(file) == IF file = None THEN EmptyData ELSE Data(file.content)

\* C27: between the calls of the loader the cached dataset and the recorded
\* modification time belong to one version of the data file, and a call
\* that was not forced has returned the file's current content whenever the
\* file has not changed since the call began.
C27_CacheAndMtimeOfOneVersion ==
    gateway.pc = "idle" =>
        /\ \/ gateway.cache = EmptyData /\ gateway.mtime = None
           \/ /\ gateway.mtime # None
              /\ gateway.cache = Data(gateway.mtime.st_mtime)
           \/ gateway.ret = FileNotFound
        /\ (~gateway.force /\ gateway.ret # FileNotFound /\ ~gateway.changed) =>
              gateway.ret = ContentOf(gateway.file)

====
